---------------------------- MODULE Spec2Model ----------------------------
(***************************************************************************)
(* A model of the generic matrix layer of FLINT's gr module:               *)
(* gr_mat_* (init, predicates, set/add/sub/mul), ca_mat_find_pivot,        *)
(* _gr_mat_swap_rows and gr_mat_lu_classical.                              *)
(*                                                                         *)
(* Arrays are functions on 0..n-1, as in C.  A matrix is the record        *)
(* [r, c, entries, rows] of gr_mat_struct: entries is the flat buffer of   *)
(* r*c elements and rows[i] is the offset in entries where row i starts.   *)
(*                                                                         *)
(* The base ring is Z/mod with a zero test that may answer GR_UNABLE: a    *)
(* ring context is [mod, undec], undec being the set of values whose       *)
(* predicates (is_zero, is_one, is_neg_one, equal) cannot be decided.      *)
(***************************************************************************)
EXTENDS Integers, FiniteSets, Sequences, TLC

VARIABLES
    ctx,              \* the base ring context
    pc,               \* position of the call in progress
    call,             \* the operation called and its scalar arguments
    A,                \* first (read-only) operand
    B,                \* second (read-only) operand
    C,                \* result matrix of set/add/sub/mul (res, C)
    LU,               \* working matrix of the LU decomposition / mat of the pivot search
    P,                \* permutation array of the LU decomposition
    full_rank_check,  \* mode flag of the LU decomposition
    rank, row, col,   \* locals of gr_mat_lu_classical
    status,           \* status accumulated / returned by the call
    pivot_status,     \* status returned by the last pivot search
    pivot_row,        \* *pivot_row written by the last pivot search (r in the LU)
    res_rank,         \* *res_rank
    res0,             \* res[0] written by a predicate
    _matrix_methods2_initialized,  \* the process-wide flag of line 1010
    _matrix_methods2, \* the process-wide method table of line 1012
    tab_inits,        \* number of runs of gr_method_tab_init_static so far
    thread            \* per thread: position in gr_ctx_init_matrix, the context
                      \* it constructs and the number of contexts it has finished

\* the state of the matrix ring contexts
matrix_vars == <<_matrix_methods2_initialized, _matrix_methods2, tab_inits, thread>>

vars == <<ctx, pc, call, A, B, C, LU, P, full_rank_check, rank, row, col,
          status, pivot_status, pivot_row, res_rank, res0, matrix_vars>>

---------------------------------------------------------------------------
(* Bounds of the model. *)

\* rows / columns of the matrix handed to gr_mat_lu_classical
MaxRows == 2
MaxCols == 2
\* rows / columns of the matrix handed to ca_mat_find_pivot on its own
PivRows == 3
PivCols == 1
PredRows == 2
PredCols == 2
OpDim == 2
\* threads constructing matrix ring contexts, and contexts each constructs
NumThreads == 2
MaxCalls == 2
\* rows / columns of the matrix whose rows are swapped
SwapRows == 3
SwapCols == 2
\* rows / columns of the matrix in the specification with fairness
LiveRows == 1
LiveCols == 2

---------------------------------------------------------------------------
(* Status codes and their aggregation (status |= ...). *)

GR_SUCCESS == 0
GR_DOMAIN == 1
GR_UNABLE == 2

\* what an output or a local holds before its first assignment (never read)
NONE == 0 - 1
\* a NULL row pointer
NULL == -1

\* bitwise OR of two status words
StatusOr(a, b) ==
    (IF a % 2 = 1 \/ b % 2 = 1 THEN 1 ELSE 0)
  + 2 * (IF (a \div 2) % 2 = 1 \/ (b \div 2) % 2 = 1 THEN 1 ELSE 0)

FLINT_MIN(x, y) == IF x < y THEN x ELSE y

---------------------------------------------------------------------------
(* The base ring: element operations reached through the context's method  *)
(* table.                                                                  *)

\* the fields Z/2 and Z/3 under several zero tests
FieldRings ==
    {[mod |-> 2, undec |-> u] : u \in SUBSET {0, 1}}
    \cup {[mod |-> 3, undec |-> u] : u \in {{}, {0}, {2}}}

\* the ring contexts the model draws from: the fields, and Z/4, where 2 is
\* neither zero nor a unit
Rings == FieldRings \cup {[mod |-> 4, undec |-> {}]}

Elems(cx) == 0 .. (cx.mod - 1)

\* the boolean written under a non-Success status is never read by the callers
gr_is_zero(x, cx) ==
    IF x \in cx.undec
    THEN [status |-> GR_UNABLE, res |-> FALSE]
    ELSE [status |-> GR_SUCCESS, res |-> (x = 0)]

gr_is_one(x, cx) ==
    IF x \in cx.undec
    THEN [status |-> GR_UNABLE, res |-> FALSE]
    ELSE [status |-> GR_SUCCESS, res |-> (x = 1 % cx.mod)]

gr_is_neg_one(x, cx) ==
    IF x \in cx.undec
    THEN [status |-> GR_UNABLE, res |-> FALSE]
    ELSE [status |-> GR_SUCCESS, res |-> (x = (cx.mod - 1) % cx.mod)]

gr_add(x, y, cx) == [status |-> GR_SUCCESS, val |-> (x + y) % cx.mod]
gr_sub(x, y, cx) == [status |-> GR_SUCCESS, val |-> (x - y + cx.mod) % cx.mod]
gr_neg(x, cx) == [status |-> GR_SUCCESS, val |-> (cx.mod - x) % cx.mod]
gr_mul(x, y, cx) == [status |-> GR_SUCCESS, val |-> (x * y) % cx.mod]

\* equality is decided on the difference
gr_equal(x, y, cx) == gr_is_zero(gr_sub(x, y, cx).val, cx)

\* x is inverted when it is a unit; d keeps its old value otherwise
gr_inv(d, x, cx) ==
    IF \E y \in Elems(cx) : (x * y) % cx.mod = 1 % cx.mod
    THEN [status |-> GR_SUCCESS,
          val |-> CHOOSE y \in Elems(cx) : (x * y) % cx.mod = 1 % cx.mod]
    ELSE [status |-> GR_DOMAIN, val |-> d]

---------------------------------------------------------------------------
(* The matrix structure. *)

gr_mat_nrows(mat) == mat.r
gr_mat_ncols(mat) == mat.c

\* GR_MAT_ENTRY(mat, i, j, sz): element j of the run rows[i] points to
GR_MAT_ENTRY(mat, i, j) == mat.entries[mat.rows[i] + j]

\* every element is constructed (as the ring's zero) and rows[i] = entries + i*cols
gr_mat_init(nrows, ncols) ==
    [r |-> nrows,
     c |-> ncols,
     entries |-> [k \in 0 .. (nrows * ncols - 1) |-> 0],
     rows |-> [i \in 0 .. (nrows - 1) |->
                  IF nrows # 0 /\ ncols # 0 THEN i * ncols ELSE NULL]]

gr_mat_is_empty(mat) == gr_mat_nrows(mat) = 0 \/ gr_mat_ncols(mat) = 0

\* the contents of the entries buffer of a matrix of the shape
Buffers(nrows, ncols, cx) == [0 .. (nrows * ncols - 1) -> Elems(cx)]

\* the matrix of the shape holding e, as gr_mat_init followed by element writes
\* leaves it
MatOf(nrows, ncols, e) == [gr_mat_init(nrows, ncols) EXCEPT !.entries = e]

\* the identity permutation array of length n
IdentityPerm(n) == [i \in 0 .. (n - 1) |-> i]

\* a NULL perm is modelled by the array of length 0
NoArr == [i \in {} |-> 0]

\* [mat, perm] after _gr_mat_swap_rows(mat, perm, r1, s1, ctx)
\* mutant: the row pointer of s is overwritten before it is saved
_gr_mat_swap_rows_no_temp(mat, perm, r1, s1) ==
    IF r1 # s1
    THEN [mat |-> [mat EXCEPT !.rows = [@ EXCEPT ![s1] = mat.rows[r1]]],
          perm |-> IF perm # NoArr
                   THEN [perm EXCEPT ![s1] = perm[r1], ![r1] = perm[s1]]
                   ELSE perm]
    ELSE [mat |-> mat, perm |-> perm]

_gr_mat_swap_rows(mat, perm, r1, s1) ==
    IF r1 # s1
    THEN [mat |-> [mat EXCEPT !.rows = [@ EXCEPT ![s1] = mat.rows[r1],
                                                 ![r1] = mat.rows[s1]]],
          perm |-> IF perm # NoArr
                   THEN [perm EXCEPT ![s1] = perm[r1], ![r1] = perm[s1]]
                   ELSE perm]
    ELSE [mat |-> mat, perm |-> perm]

\* the buffer after _gr_vec_set(buf + off, src + soff, len, ctx)
_gr_vec_set(buf, off, src, soff, len) ==
    [k \in DOMAIN buf |->
        IF off <= k /\ k < off + len THEN src[soff + (k - off)] ELSE buf[k]]

\* the buffer after _gr_vec_scalar_addmul(buf + off, buf + soff, len, e, ctx):
\* buf[off + k] += e * buf[soff + k]; the two runs are rows of one matrix
_gr_vec_scalar_addmul(buf, off, soff, len, e, cx) ==
    [k \in DOMAIN buf |->
        IF off <= k /\ k < off + len
        THEN gr_add(buf[k], gr_mul(e, buf[soff + (k - off)], cx).val, cx).val
        ELSE buf[k]]

\* rows 0..i-1 of res written from mat
RECURSIVE gr_mat_set_rows(_, _, _)
gr_mat_set_rows(res, mat, i) ==
    IF i = 0
    THEN res
    ELSE LET prev == gr_mat_set_rows(res, mat, i - 1)
         IN  [prev EXCEPT !.entries =
                 _gr_vec_set(@, prev.rows[i - 1], mat.entries, mat.rows[i - 1], res.c)]

\* [status, res] after gr_mat_set(res, mat, ctx); alias says res and mat are one object
gr_mat_set(res, mat, alias) ==
    IF gr_mat_nrows(res) # gr_mat_nrows(mat) \/ gr_mat_ncols(res) # gr_mat_ncols(mat)
    THEN [status |-> GR_DOMAIN, res |-> res]
    ELSE [status |-> GR_SUCCESS,
          res |-> IF alias THEN res ELSE gr_mat_set_rows(res, mat, res.r)]

---------------------------------------------------------------------------
(* Vector operations on runs of a buffer.  Each returns [status, buf] or    *)
(* [status, res]; the status is the OR of the element operations' statuses.*)

\* _gr_vec_zero(buf + off, len, ctx)
_gr_vec_zero(buf, off, len) ==
    [status |-> GR_SUCCESS,
     buf |-> [k \in DOMAIN buf |-> IF off <= k /\ k < off + len THEN 0 ELSE buf[k]]]

\* _gr_vec_add(buf + off, s1 + o1, s2 + o2, len, ctx)
_gr_vec_add(buf, off, s1, o1, s2, o2, len, cx) ==
    [status |-> GR_SUCCESS,
     buf |-> [k \in DOMAIN buf |->
                IF off <= k /\ k < off + len
                THEN gr_add(s1[o1 + (k - off)], s2[o2 + (k - off)], cx).val
                ELSE buf[k]]]

\* _gr_vec_sub(buf + off, s1 + o1, s2 + o2, len, ctx)
_gr_vec_sub(buf, off, s1, o1, s2, o2, len, cx) ==
    [status |-> GR_SUCCESS,
     buf |-> [k \in DOMAIN buf |->
                IF off <= k /\ k < off + len
                THEN gr_sub(s1[o1 + (k - off)], s2[o2 + (k - off)], cx).val
                ELSE buf[k]]]

\* the sum of v1[o1 + k] * v2[o2 + k] for k < len
RECURSIVE DotSum(_, _, _, _, _, _)
DotSum(v1, o1, v2, o2, len, cx) ==
    IF len = 0 THEN 0
    ELSE gr_add(DotSum(v1, o1, v2, o2, len - 1, cx),
                gr_mul(v1[o1 + len - 1], v2[o2 + len - 1], cx).val, cx).val

\* _gr_vec_dot(res, NULL, 0, v1 + o1, v2 + o2, len, ctx): no seed, no subtraction
_gr_vec_dot(v1, o1, v2, o2, len, cx) ==
    [status |-> GR_SUCCESS, val |-> DotSum(v1, o1, v2, o2, len, cx)]

\* the scan of _gr_vec_is_zero from element k on: a proven nonzero element
\* answers (Success, false) whatever was undecided before it
RECURSIVE vec_is_zero_scan(_, _, _, _, _, _)
vec_is_zero_scan(buf, off, len, k, st, cx) ==
    IF k >= len
    THEN [status |-> st, res |-> (st = GR_SUCCESS)]
    ELSE LET z == gr_is_zero(buf[off + k], cx)
         IN  IF z.status = GR_SUCCESS /\ ~z.res
             THEN [status |-> GR_SUCCESS, res |-> FALSE]
             ELSE vec_is_zero_scan(buf, off, len, k + 1, StatusOr(st, z.status), cx)

\* _gr_vec_is_zero(&res, buf + off, len, ctx)
_gr_vec_is_zero(buf, off, len, cx) == vec_is_zero_scan(buf, off, len, 0, GR_SUCCESS, cx)

\* the scan of _gr_vec_equal from element k on
RECURSIVE vec_equal_scan(_, _, _, _, _, _, _, _)
vec_equal_scan(v1, o1, v2, o2, len, k, st, cx) ==
    IF k >= len
    THEN [status |-> st, res |-> (st = GR_SUCCESS)]
    ELSE LET z == gr_equal(v1[o1 + k], v2[o2 + k], cx)
         IN  IF z.status = GR_SUCCESS /\ ~z.res
             THEN [status |-> GR_SUCCESS, res |-> FALSE]
             ELSE vec_equal_scan(v1, o1, v2, o2, len, k + 1, StatusOr(st, z.status), cx)

\* _gr_vec_equal(&res, v1 + o1, v2 + o2, len, ctx)
_gr_vec_equal(v1, o1, v2, o2, len, cx) ==
    vec_equal_scan(v1, o1, v2, o2, len, 0, GR_SUCCESS, cx)

---------------------------------------------------------------------------
(* Matrix predicates: [status, res], res the int written to res[0].        *)

\* mutant: the row status is accumulated and a definite "false" does not reset it
RECURSIVE mat_is_zero_rows_accumulating(_, _, _, _)
mat_is_zero_rows_accumulating(mat, i, st, cx) ==
    IF i >= gr_mat_nrows(mat)
    THEN [status |-> st, res |-> 1]
    ELSE LET this == _gr_vec_is_zero(mat.entries, mat.rows[i], gr_mat_ncols(mat), cx)
         IN  IF this.status = GR_SUCCESS /\ ~this.res
             THEN [status |-> st, res |-> 0]
             ELSE mat_is_zero_rows_accumulating(mat, i + 1, StatusOr(st, this.status), cx)

\* the loop of gr_mat_is_zero from row i on (equal is 1 until the break)
RECURSIVE mat_is_zero_rows(_, _, _, _)
mat_is_zero_rows(mat, i, st, cx) ==
    IF i >= gr_mat_nrows(mat)
    THEN [status |-> st, res |-> 1]
    ELSE LET this == _gr_vec_is_zero(mat.entries, mat.rows[i], gr_mat_ncols(mat), cx)
         IN  IF this.status = GR_SUCCESS /\ ~this.res
             THEN [status |-> GR_SUCCESS, res |-> 0]
             ELSE mat_is_zero_rows(mat, i + 1, StatusOr(st, st), cx)

gr_mat_is_zero(mat, cx) ==
    IF gr_mat_nrows(mat) = 0 \/ gr_mat_ncols(mat) = 0
    THEN [status |-> GR_SUCCESS, res |-> 1]
    ELSE mat_is_zero_rows(mat, 0, GR_SUCCESS, cx)

\* the element test of gr_mat_is_one (diag = "one") and gr_mat_is_neg_one
\* (diag = "neg_one") at (i, j)
mat_diag_test(mat, i, j, diag, cx) ==
    IF i = j
    THEN IF diag = "one"
         THEN gr_is_one(GR_MAT_ENTRY(mat, i, j), cx)
         ELSE gr_is_neg_one(GR_MAT_ENTRY(mat, i, j), cx)
    ELSE gr_is_zero(GR_MAT_ENTRY(mat, i, j), cx)

\* the two loops of gr_mat_is_one / gr_mat_is_neg_one from (i, j) on, with the
\* values of status and equal so far; the break leaves the inner loop only
RECURSIVE mat_diag_scan(_, _, _, _, _, _, _)
mat_diag_scan(mat, i, j, diag, st, equal, cx) ==
    IF i >= gr_mat_nrows(mat)
    THEN [status |-> st, res |-> equal]
    ELSE IF j >= gr_mat_ncols(mat)
    THEN mat_diag_scan(mat, i + 1, 0, diag, st, equal, cx)
    ELSE LET this == mat_diag_test(mat, i, j, diag, cx)
         IN  IF this.status = GR_SUCCESS /\ ~this.res
             THEN mat_diag_scan(mat, i + 1, 0, diag, GR_SUCCESS, 0, cx)
             ELSE mat_diag_scan(mat, i, j + 1, diag, StatusOr(st, st), equal, cx)

gr_mat_is_one(mat, cx) ==
    IF gr_mat_nrows(mat) = 0 \/ gr_mat_ncols(mat) = 0
    THEN [status |-> GR_SUCCESS, res |-> 1]
    ELSE mat_diag_scan(mat, 0, 0, "one", GR_SUCCESS, 1, cx)

gr_mat_is_neg_one(mat, cx) ==
    IF gr_mat_nrows(mat) = 0 \/ gr_mat_ncols(mat) = 0
    THEN [status |-> GR_SUCCESS, res |-> 1]
    ELSE mat_diag_scan(mat, 0, 0, "neg_one", GR_SUCCESS, 1, cx)

\* the loop of gr_mat_equal from row i on
RECURSIVE mat_equal_rows(_, _, _, _, _)
mat_equal_rows(mat1, mat2, i, st, cx) ==
    IF i >= gr_mat_nrows(mat1)
    THEN [status |-> st, res |-> 1]
    ELSE LET this == _gr_vec_equal(mat1.entries, mat1.rows[i], mat2.entries, mat2.rows[i],
                                   gr_mat_ncols(mat1), cx)
         IN  IF this.status = GR_SUCCESS /\ ~this.res
             THEN [status |-> GR_SUCCESS, res |-> 0]
             ELSE mat_equal_rows(mat1, mat2, i + 1, StatusOr(st, st), cx)

\* mutant: a shape mismatch is answered like the other binary operations do
gr_mat_equal_domain(mat1, mat2, cx) ==
    IF gr_mat_nrows(mat1) # gr_mat_nrows(mat2) \/ gr_mat_ncols(mat1) # gr_mat_ncols(mat2)
    THEN [status |-> GR_DOMAIN, res |-> NONE]
    ELSE IF gr_mat_nrows(mat1) = 0 \/ gr_mat_ncols(mat1) = 0
    THEN [status |-> GR_SUCCESS, res |-> 1]
    ELSE mat_equal_rows(mat1, mat2, 0, GR_SUCCESS, cx)

gr_mat_equal(mat1, mat2, cx) ==
    IF gr_mat_nrows(mat1) # gr_mat_nrows(mat2) \/ gr_mat_ncols(mat1) # gr_mat_ncols(mat2)
    THEN [status |-> GR_SUCCESS, res |-> 0]
    ELSE IF gr_mat_nrows(mat1) = 0 \/ gr_mat_ncols(mat1) = 0
    THEN [status |-> GR_SUCCESS, res |-> 1]
    ELSE mat_equal_rows(mat1, mat2, 0, GR_SUCCESS, cx)

---------------------------------------------------------------------------
(* Matrix arithmetic: [status, res].  An operand that is the same object as *)
(* the result is passed by its value before the call: the row operations    *)
(* read element k of a row before they write element k of the same row.     *)

\* rows i..r-1 of gr_mat_zero
RECURSIVE mat_zero_rows(_, _, _)
mat_zero_rows(res, i, st) ==
    IF i >= gr_mat_nrows(res)
    THEN [status |-> st, res |-> res]
    ELSE LET v == _gr_vec_zero(res.entries, res.rows[i], gr_mat_ncols(res))
         IN  mat_zero_rows([res EXCEPT !.entries = v.buf], i + 1, StatusOr(st, v.status))

gr_mat_zero(res) == mat_zero_rows(res, 0, GR_SUCCESS)

\* gr_set_si(x, v, ctx): the image of the small integer v in the ring
gr_set_si(v, cx) == [status |-> GR_SUCCESS, val |-> v % cx.mod]

\* mutant: the diagonal loop is missing, only the corner is written
set_si_diag_corner_only(res, i, st) == [status |-> st, res |-> res]

\* lines 298-300: the diagonal cells i.. are copied from cell (0, 0) with gr_set
RECURSIVE set_si_diag(_, _, _)
set_si_diag(res, i, st) ==
    IF i >= FLINT_MIN(gr_mat_nrows(res), gr_mat_ncols(res))
    THEN [status |-> st, res |-> res]
    ELSE set_si_diag([res EXCEPT !.entries[res.rows[i] + i] = GR_MAT_ENTRY(res, 0, 0)],
                     i + 1, StatusOr(st, GR_SUCCESS))

gr_mat_set_si(res, v, cx) ==
    LET z == gr_mat_zero(res)
    IN  IF gr_mat_nrows(res) > 0 /\ gr_mat_ncols(res) > 0
        THEN LET s0 == gr_set_si(v, cx)
             IN  set_si_diag([z.res EXCEPT !.entries[z.res.rows[0]] = s0.val], 1,
                             StatusOr(z.status, s0.status))
        ELSE [status |-> z.status, res |-> z.res]

gr_mat_one(res, cx) == gr_mat_set_si(res, 1, cx)

\* rows i..r-1 of gr_mat_add
RECURSIVE mat_add_rows(_, _, _, _, _, _)
mat_add_rows(res, mat1, mat2, i, st, cx) ==
    IF i >= gr_mat_nrows(res)
    THEN [status |-> st, res |-> res]
    ELSE LET v == _gr_vec_add(res.entries, res.rows[i], mat1.entries, mat1.rows[i],
                              mat2.entries, mat2.rows[i], gr_mat_ncols(res), cx)
         IN  mat_add_rows([res EXCEPT !.entries = v.buf], mat1, mat2, i + 1,
                          StatusOr(st, v.status), cx)

gr_mat_add(res, mat1, mat2, cx) ==
    IF \/ gr_mat_nrows(res) # gr_mat_nrows(mat1)
       \/ gr_mat_ncols(res) # gr_mat_ncols(mat1)
       \/ gr_mat_nrows(res) # gr_mat_nrows(mat2)
       \/ gr_mat_ncols(res) # gr_mat_ncols(mat2)
    THEN [status |-> GR_DOMAIN, res |-> res]
    ELSE mat_add_rows(res, mat1, mat2, 0, GR_SUCCESS, cx)

\* rows i..r-1 of gr_mat_sub
RECURSIVE mat_sub_rows(_, _, _, _, _, _)
mat_sub_rows(res, mat1, mat2, i, st, cx) ==
    IF i >= gr_mat_nrows(res)
    THEN [status |-> st, res |-> res]
    ELSE LET v == _gr_vec_sub(res.entries, res.rows[i], mat1.entries, mat1.rows[i],
                              mat2.entries, mat2.rows[i], gr_mat_ncols(res), cx)
         IN  mat_sub_rows([res EXCEPT !.entries = v.buf], mat1, mat2, i + 1,
                          StatusOr(st, v.status), cx)

gr_mat_sub(res, mat1, mat2, cx) ==
    IF \/ gr_mat_nrows(res) # gr_mat_nrows(mat1)
       \/ gr_mat_ncols(res) # gr_mat_ncols(mat1)
       \/ gr_mat_nrows(res) # gr_mat_nrows(mat2)
       \/ gr_mat_ncols(res) # gr_mat_ncols(mat2)
    THEN [status |-> GR_DOMAIN, res |-> res]
    ELSE mat_sub_rows(res, mat1, mat2, 0, GR_SUCCESS, cx)

\* [status, mat1, mat2] after gr_mat_swap_entrywise(mat1, mat2, ctx): the rows
\* are exchanged element by element (_gr_vec_swap)
gr_mat_swap_entrywise(mat1, mat2) ==
    IF gr_mat_nrows(mat1) # gr_mat_nrows(mat2) \/ gr_mat_ncols(mat1) # gr_mat_ncols(mat2)
    THEN [status |-> GR_DOMAIN, mat1 |-> mat1, mat2 |-> mat2]
    ELSE LET c == gr_mat_ncols(mat1)
             \* the cell (i, j) stored at offset k of mat
             RowAt(mat, k) == CHOOSE i \in 0 .. (mat.r - 1) :
                                 mat.rows[i] <= k /\ k < mat.rows[i] + c
             Other(mat, other, k) ==
                 other.entries[other.rows[RowAt(mat, k)] + (k - mat.rows[RowAt(mat, k)])]
         IN  [status |-> GR_SUCCESS,
              mat1 |-> [mat1 EXCEPT !.entries =
                           [k \in DOMAIN mat1.entries |-> Other(mat1, mat2, k)]],
              mat2 |-> [mat2 EXCEPT !.entries =
                           [k \in DOMAIN mat2.entries |-> Other(mat2, mat1, k)]]]

\* the buffers gr_mat_init(mat, nrows, ncols, ctx) takes from flint_malloc
gr_mat_init_allocs(nrows, ncols) ==
    (IF nrows # 0 THEN {"rows"} ELSE {})
        \cup (IF nrows # 0 /\ ncols # 0 THEN {"entries"} ELSE {})

\* the buffers gr_mat_clear(mat, ctx) gives to flint_free; the entries pointer
\* is not NULL exactly when gr_mat_init found both dimensions nonzero
gr_mat_clear(mat) ==
    IF mat.r # 0 /\ mat.c # 0
    THEN [status |-> GR_SUCCESS, freed |-> {"entries", "rows"}]
    ELSE IF mat.r # 0
    THEN [status |-> GR_SUCCESS, freed |-> {"rows"}]
    ELSE [status |-> GR_SUCCESS, freed |-> {}]

\* the ledger of a call that made no temporary matrix
NoTmp == [alloc |-> {}, freed |-> {}]

\* mutant: the scratch copy of B is taken in B's own row-major order
mul_transpose_row_major(Bm) ==
    [k \in 0 .. (Bm.r * Bm.c - 1) |-> GR_MAT_ENTRY(Bm, k \div Bm.c, k % Bm.c)]

\* lines 597-605: the scratch copy of B, column j of B stored as the run at j * br
mul_transpose(Bm) ==
    [k \in 0 .. (Bm.r * Bm.c - 1) |-> GR_MAT_ENTRY(Bm, k % Bm.r, k \div Bm.r)]

\* lines 583-617: the cells idx.. of C in row-major order, C distinct from A and B
RECURSIVE mul_cells(_, _, _, _, _, _)
mul_cells(Cm, Am, Bm, idx, st, cx) ==
    IF idx >= gr_mat_nrows(Am) * gr_mat_ncols(Bm)
    THEN [status |-> st, res |-> Cm]
    ELSE LET br == gr_mat_nrows(Bm)
             bc == gr_mat_ncols(Bm)
             i == idx \div bc
             j == idx % bc
             v == IF br = 1
                  THEN gr_mul(GR_MAT_ENTRY(Am, i, 0), GR_MAT_ENTRY(Bm, 0, j), cx)
                  ELSE _gr_vec_dot(Am.entries, Am.rows[i], mul_transpose(Bm), j * br, br, cx)
         IN  mul_cells([Cm EXCEPT !.entries[Cm.rows[i] + j] = v.val], Am, Bm, idx + 1,
                       StatusOr(st, v.status), cx)

\* mutant: the result is cleared before the shapes are compared
gr_mat_mul_classical_clears_first(Cm, Am, Bm, aliased, cx) ==
    IF \/ gr_mat_ncols(Am) # gr_mat_nrows(Bm)
       \/ gr_mat_nrows(Am) # gr_mat_nrows(Cm)
       \/ gr_mat_ncols(Bm) # gr_mat_ncols(Cm)
    THEN [status |-> GR_DOMAIN, res |-> gr_mat_zero(Cm).res, tmp |-> NoTmp]
    ELSE LET f == mul_cells(gr_mat_zero(Cm).res, Am, Bm, 0, GR_SUCCESS, cx)
         IN  [status |-> f.status, res |-> f.res, tmp |-> NoTmp]

\* mutant: the product is left in the temporary, which is cleared without the
\* exchange with C
gr_mat_mul_classical_no_swap(Cm, Am, Bm, aliased, cx) ==
    IF \/ gr_mat_ncols(Am) # gr_mat_nrows(Bm)
       \/ gr_mat_nrows(Am) # gr_mat_nrows(Cm)
       \/ gr_mat_ncols(Bm) # gr_mat_ncols(Cm)
    THEN [status |-> GR_DOMAIN, res |-> Cm, tmp |-> NoTmp]
    ELSE IF gr_mat_nrows(Bm) = 0
    THEN [status |-> gr_mat_zero(Cm).status, res |-> gr_mat_zero(Cm).res, tmp |-> NoTmp]
    ELSE IF aliased
    THEN LET T  == gr_mat_init(gr_mat_nrows(Am), gr_mat_ncols(Bm))
             t  == mul_cells(T, Am, Bm, 0, GR_SUCCESS, cx)
             cl == gr_mat_clear(t.res)
         IN  [status |-> StatusOr(StatusOr(GR_SUCCESS, t.status), cl.status),
              res |-> Cm,
              tmp |-> [alloc |-> gr_mat_init_allocs(gr_mat_nrows(Am), gr_mat_ncols(Bm)),
                       freed |-> cl.freed]]
    ELSE LET f == mul_cells(Cm, Am, Bm, 0, GR_SUCCESS, cx)
         IN  [status |-> f.status, res |-> f.res, tmp |-> NoTmp]

\* [status, res, tmp] after gr_mat_mul_classical(C, A, B, ctx); aliased says C
\* is the object A or B; tmp is the ledger of the temporary T
gr_mat_mul_classical(Cm, Am, Bm, aliased, cx) ==
    IF \/ gr_mat_ncols(Am) # gr_mat_nrows(Bm)
       \/ gr_mat_nrows(Am) # gr_mat_nrows(Cm)
       \/ gr_mat_ncols(Bm) # gr_mat_ncols(Cm)
    THEN [status |-> GR_DOMAIN, res |-> Cm, tmp |-> NoTmp]
    ELSE IF gr_mat_nrows(Bm) = 0
    THEN [status |-> gr_mat_zero(Cm).status, res |-> gr_mat_zero(Cm).res, tmp |-> NoTmp]
    ELSE IF aliased
    THEN \* lines 571-579: T is initialised, multiplied into (the inner call finds
         \* T distinct from A and B), exchanged with C and cleared
         LET T  == gr_mat_init(gr_mat_nrows(Am), gr_mat_ncols(Bm))
             t  == mul_cells(T, Am, Bm, 0, GR_SUCCESS, cx)
             sw == gr_mat_swap_entrywise(t.res, Cm)
             cl == gr_mat_clear(sw.mat1)
         IN  [status |-> StatusOr(StatusOr(StatusOr(GR_SUCCESS, t.status), sw.status),
                                  cl.status),
              res |-> sw.mat2,
              tmp |-> [alloc |-> gr_mat_init_allocs(gr_mat_nrows(Am), gr_mat_ncols(Bm)),
                       freed |-> cl.freed]]
    ELSE LET f == mul_cells(Cm, Am, Bm, 0, GR_SUCCESS, cx)
         IN  [status |-> f.status, res |-> f.res, tmp |-> NoTmp]

---------------------------------------------------------------------------
(* Pivot search. *)

gr_cmp_repr(x, y, cx) == 0

\* mutant: every row not proven zero is a candidate (the test of the disabled
\* fast path, is_zero != T_TRUE)
RECURSIVE find_pivot_scan_not_true(_, _, _, _, _, _, _)
find_pivot_scan_not_true(mat, i, end_row, column, best_row, unknown, cx) ==
    IF i >= end_row
    THEN <<best_row, unknown>>
    ELSE LET z == gr_is_zero(GR_MAT_ENTRY(mat, i, column), cx)
             take == ~(z.status = GR_SUCCESS /\ z.res) /\ best_row = -1
         IN  find_pivot_scan_not_true(mat, i + 1, end_row, column,
                                      IF take THEN i ELSE best_row,
                                      IF z.status = GR_SUCCESS THEN unknown ELSE 1,
                                      cx)

\* mutant: unknown is overwritten by every row instead of being remembered
RECURSIVE find_pivot_scan_forgets(_, _, _, _, _, _, _)
find_pivot_scan_forgets(mat, i, end_row, column, best_row, unknown, cx) ==
    IF i >= end_row
    THEN <<best_row, unknown>>
    ELSE LET z == gr_is_zero(GR_MAT_ENTRY(mat, i, column), cx)
             take == z.status = GR_SUCCESS /\ ~z.res /\ best_row = -1
         IN  find_pivot_scan_forgets(mat, i + 1, end_row, column,
                                     IF take THEN i ELSE best_row,
                                     IF z.status = GR_SUCCESS THEN 0 ELSE 1,
                                     cx)

\* the loop of ca_mat_find_pivot from row i on: <<best_row, unknown>>
RECURSIVE find_pivot_scan(_, _, _, _, _, _, _)
find_pivot_scan(mat, i, end_row, column, best_row, unknown, cx) ==
    IF i >= end_row
    THEN <<best_row, unknown>>
    ELSE LET z == gr_is_zero(GR_MAT_ENTRY(mat, i, column), cx)
             take == z.status = GR_SUCCESS /\ ~z.res
                     /\ (best_row = -1
                         \/ gr_cmp_repr(GR_MAT_ENTRY(mat, i, column),
                                        GR_MAT_ENTRY(mat, best_row, column), cx) < 0)
         IN  find_pivot_scan(mat, i + 1, end_row, column,
                             IF take THEN i ELSE best_row,
                             IF z.status = GR_SUCCESS THEN unknown ELSE 1,
                             cx)

\* [status, pivot_row]; the empty range aborts the process
ca_mat_find_pivot(mat, start_row, end_row, column, cx) ==
    IF end_row <= start_row
    THEN [abort |-> TRUE, status |-> NONE, pivot_row |-> NONE]
    ELSE LET s == find_pivot_scan(mat, start_row, end_row, column, -1, 0, cx)
             best_row == s[1]
             unknown  == s[2]
         IN  IF best_row = -1
             THEN [abort |-> FALSE,
                   status |-> IF unknown # 0 THEN GR_UNABLE ELSE GR_DOMAIN,
                   pivot_row |-> -1]
             ELSE [abort |-> FALSE, status |-> GR_SUCCESS, pivot_row |-> best_row]

---------------------------------------------------------------------------
(* LU decomposition: the elimination below a pivot.                        *)

\* mutant: the multiplier is stored with the sign of e (the gr_neg of line 852
\* is a plain gr_set)
lu_eliminate_row_keeps_sign(mat, j, prow, pcol, prank, d, st, cx) ==
    LET n   == gr_mat_ncols(mat)
        a   == mat.rows
        m1  == gr_mul(mat.entries[a[j] + pcol], d, cx)
        e   == gr_neg(m1.val, cx)
        buf1 == _gr_vec_scalar_addmul(mat.entries, a[j] + pcol + 1,
                                      a[prow] + pcol + 1, n - pcol - 1, e.val, cx)
        buf2 == [buf1 EXCEPT ![a[j] + pcol] = 0]
        buf3 == [buf2 EXCEPT ![a[j] + (prank - 1)] = e.val]
    IN  [status |-> StatusOr(StatusOr(st, m1.status), e.status),
         mat |-> [mat EXCEPT !.entries = buf3]]

\* one pass of the body of "for (j = row + 1; j < m; j++)" on row j of LU:
\* [status, mat]
lu_eliminate_row(mat, j, prow, pcol, prank, d, st, cx) ==
    LET n   == gr_mat_ncols(mat)
        a   == mat.rows
        m1  == gr_mul(mat.entries[a[j] + pcol], d, cx)
        e   == gr_neg(m1.val, cx)
        buf1 == _gr_vec_scalar_addmul(mat.entries, a[j] + pcol + 1,
                                      a[prow] + pcol + 1, n - pcol - 1, e.val, cx)
        buf2 == [buf1 EXCEPT ![a[j] + pcol] = 0]
        l   == gr_neg(e.val, cx)
        buf3 == [buf2 EXCEPT ![a[j] + (prank - 1)] = l.val]
    IN  [status |-> StatusOr(StatusOr(StatusOr(st, m1.status), e.status), l.status),
         mat |-> [mat EXCEPT !.entries = buf3]]

\* rows j..m-1 eliminated in turn: [status, mat]
RECURSIVE lu_eliminate(_, _, _, _, _, _, _, _)
lu_eliminate(mat, j, prow, pcol, prank, d, st, cx) ==
    IF j >= gr_mat_nrows(mat)
    THEN [status |-> st, mat |-> mat]
    ELSE LET one == lu_eliminate_row(mat, j, prow, pcol, prank, d, st, cx)
         IN  lu_eliminate(one.mat, j + 1, prow, pcol, prank, d, one.status, cx)

---------------------------------------------------------------------------
(* Values of the variables an operation does not use. *)

NoMat == gr_mat_init(0, 0)

\* no matrix ring context is under construction: the statics as the program
\* starts with them, and no thread
MatrixCtxIdle ==
    /\ _matrix_methods2_initialized = 0
    /\ _matrix_methods2 = "empty"
    /\ tab_inits = 0
    /\ thread = <<>>
NoCall == [op |-> "none"]

---------------------------------------------------------------------------
(* Specification SpecPivot: ca_mat_find_pivot called on a matrix, for any   *)
(* row range (the empty ones abort) and any column.                        *)

PivotIdle ==
    /\ MatrixCtxIdle
    /\ A = NoMat /\ B = NoMat /\ C = NoMat /\ P = NoArr
    /\ full_rank_check = 0 /\ rank = 0 /\ row = 0 /\ col = 0
    /\ status = NONE /\ res_rank = NONE /\ res0 = NONE

InitPivot ==
    /\ ctx \in FieldRings
    /\ \E nrows \in 1 .. PivRows, ncols \in 1 .. PivCols :
         \E e \in Buffers(nrows, ncols, ctx) :
           \* the row table as gr_mat_init built it, or after a row swap
           LU \in {MatOf(nrows, ncols, e),
                   _gr_mat_swap_rows(MatOf(nrows, ncols, e), NoArr, 0, nrows - 1).mat}
    /\ pc = "idle"
    /\ call = NoCall
    /\ pivot_status = NONE
    /\ pivot_row = NONE
    /\ PivotIdle

\* one call of ca_mat_find_pivot(&pivot_row, LU, start_row, end_row, column, ctx)
FindPivot ==
    /\ pc = "idle"
    /\ \E start_row \in 0 .. LU.r, end_row \in 0 .. LU.r, column \in 0 .. (LU.c - 1) :
         LET f == ca_mat_find_pivot(LU, start_row, end_row, column, ctx)
         IN  /\ call' = [op |-> "ca_mat_find_pivot", start_row |-> start_row,
                         end_row |-> end_row, column |-> column]
             /\ pc' = IF f.abort THEN "aborted" ELSE "returned"
             /\ pivot_status' = f.status
             /\ pivot_row' = f.pivot_row
    /\ UNCHANGED <<ctx, matrix_vars, A, B, C, LU, P, full_rank_check, rank, row, col,
                   status, res_rank, res0>>

NextPivot == FindPivot

SpecPivot == InitPivot /\ [][NextPivot]_vars

---------------------------------------------------------------------------
(* Specification SpecPred: one call of a matrix predicate on a matrix A of  *)
(* any shape and content; gr_mat_equal compares A with a second matrix B of *)
(* any shape, all of whose entries hold one value.                          *)

PredIdle ==
    /\ MatrixCtxIdle
    /\ C = NoMat /\ LU = NoMat /\ P = NoArr
    /\ full_rank_check = 0 /\ rank = 0 /\ row = 0 /\ col = 0
    /\ pivot_status = NONE /\ pivot_row = NONE /\ res_rank = NONE

InitPred ==
    /\ ctx \in FieldRings
    /\ \E nrows \in 0 .. PredRows, ncols \in 0 .. PredCols :
         \E e \in Buffers(nrows, ncols, ctx) : A = MatOf(nrows, ncols, e)
    /\ B = NoMat
    /\ pc = "idle"
    /\ call = NoCall
    /\ status = NONE /\ res0 = NONE
    /\ PredIdle

\* status = gr_mat_is_zero(&res, A, ctx)
CallIsZero ==
    /\ pc = "idle"
    /\ LET f == gr_mat_is_zero(A, ctx)
       IN  status' = f.status /\ res0' = f.res
    /\ call' = [op |-> "gr_mat_is_zero", after |-> call.op]
    /\ pc' = "returned"
    /\ UNCHANGED <<ctx, matrix_vars, A, B, C, LU, P, full_rank_check, rank, row, col,
                   pivot_status, pivot_row, res_rank>>

\* status = gr_mat_is_one(&res, A, ctx)
CallIsOne ==
    /\ pc = "idle"
    /\ LET f == gr_mat_is_one(A, ctx)
       IN  status' = f.status /\ res0' = f.res
    /\ call' = [op |-> "gr_mat_is_one", after |-> call.op]
    /\ pc' = "returned"
    /\ UNCHANGED <<ctx, matrix_vars, A, B, C, LU, P, full_rank_check, rank, row, col,
                   pivot_status, pivot_row, res_rank>>

\* status = gr_mat_is_neg_one(&res, A, ctx)
CallIsNegOne ==
    /\ pc = "idle"
    /\ LET f == gr_mat_is_neg_one(A, ctx)
       IN  status' = f.status /\ res0' = f.res
    /\ call' = [op |-> "gr_mat_is_neg_one", after |-> call.op]
    /\ pc' = "returned"
    /\ UNCHANGED <<ctx, matrix_vars, A, B, C, LU, P, full_rank_check, rank, row, col,
                   pivot_status, pivot_row, res_rank>>

\* status = gr_mat_equal(&res, A, B, ctx), B the second matrix of the caller
CallEqual ==
    /\ pc = "idle"
    /\ \E nrows \in 0 .. PredRows, ncols \in 0 .. PredCols, v \in Elems(ctx) :
         LET mat2 == MatOf(nrows, ncols, [k \in 0 .. (nrows * ncols - 1) |-> v])
             f == gr_mat_equal(A, mat2, ctx)
         IN  /\ B' = mat2
             /\ status' = f.status
             /\ res0' = f.res
    /\ call' = [op |-> "gr_mat_equal", after |-> call.op]
    /\ pc' = "returned"
    /\ UNCHANGED <<ctx, matrix_vars, A, C, LU, P, full_rank_check, rank, row, col,
                   pivot_status, pivot_row, res_rank>>

\* status = gr_mat_one(A, ctx), once, before the predicate is called
CallOne ==
    /\ pc = "idle"
    /\ call = NoCall
    /\ LET f == gr_mat_one(A, ctx)
       IN  status' = f.status /\ A' = f.res
    /\ call' = [op |-> "gr_mat_one"]
    /\ pc' = "idle"
    /\ UNCHANGED <<ctx, matrix_vars, B, C, LU, P, full_rank_check, rank, row, col,
                   pivot_status, pivot_row, res_rank, res0>>

NextPred == CallOne \/ CallIsZero \/ CallIsOne \/ CallIsNegOne \/ CallEqual

SpecPred == InitPred /\ [][NextPred]_vars

---------------------------------------------------------------------------
(* Specification SpecOps: one call of gr_mat_set, gr_mat_add, gr_mat_sub or *)
(* gr_mat_mul_classical with result C and operands among the objects A, B   *)
(* and C, the three of any shapes.                                          *)

OpsIdle ==
    /\ MatrixCtxIdle
    /\ LU = NoMat /\ P = NoArr
    /\ full_rank_check = 0 /\ rank = 0 /\ row = 0 /\ col = 0
    /\ pivot_status = NONE /\ pivot_row = NONE /\ res_rank = NONE /\ res0 = NONE

\* the matrix of the shape whose cells count up from k
CountingMat(nrows, ncols, k, cx) ==
    MatOf(nrows, ncols, [idx \in 0 .. (nrows * ncols - 1) |-> (k + idx) % cx.mod])

OpShapes == (0 .. OpDim) \X (0 .. OpDim)

InitOps ==
    /\ ctx \in {cx \in FieldRings : cx.undec = {}}
    /\ \E sa \in OpShapes, ka \in Elems(ctx) : A = CountingMat(sa[1], sa[2], ka, ctx)
    /\ \E sb \in OpShapes, kb \in Elems(ctx) : B = CountingMat(sb[1], sb[2], kb, ctx)
    /\ \E sc \in OpShapes, kc \in Elems(ctx) : C = CountingMat(sc[1], sc[2], kc, ctx)
    /\ pc = "idle"
    /\ call = NoCall
    /\ status = NONE
    /\ OpsIdle

OpNames == {"A", "B", "C"}

\* the object an operand name denotes
Operand(x) == IF x = "A" THEN A ELSE IF x = "B" THEN B ELSE C

OpsFrame == UNCHANGED <<ctx, matrix_vars, A, B, LU, P, full_rank_check, rank, row, col,
                        pivot_status, pivot_row, res_rank, res0>>

\* status = gr_mat_set(C, x, ctx)
CallSet ==
    /\ pc = "idle"
    /\ \E x \in OpNames :
         LET f == gr_mat_set(C, Operand(x), x = "C")
         IN  /\ call' = [op |-> "gr_mat_set", mat1 |-> x, mat2 |-> x]
             /\ status' = f.status
             /\ C' = f.res
    /\ pc' = "returned"
    /\ OpsFrame

\* status = gr_mat_add(C, x, y, ctx)
CallAdd ==
    /\ pc = "idle"
    /\ \E x \in OpNames, y \in OpNames :
         LET f == gr_mat_add(C, Operand(x), Operand(y), ctx)
         IN  /\ call' = [op |-> "gr_mat_add", mat1 |-> x, mat2 |-> y]
             /\ status' = f.status
             /\ C' = f.res
    /\ pc' = "returned"
    /\ OpsFrame

\* status = gr_mat_sub(C, x, y, ctx)
CallSub ==
    /\ pc = "idle"
    /\ \E x \in OpNames, y \in OpNames :
         LET f == gr_mat_sub(C, Operand(x), Operand(y), ctx)
         IN  /\ call' = [op |-> "gr_mat_sub", mat1 |-> x, mat2 |-> y]
             /\ status' = f.status
             /\ C' = f.res
    /\ pc' = "returned"
    /\ OpsFrame

\* status = gr_mat_mul_classical(C, x, y, ctx)
CallMul ==
    /\ pc = "idle"
    /\ \E x \in OpNames, y \in OpNames :
         LET f == gr_mat_mul_classical(C, Operand(x), Operand(y), x = "C" \/ y = "C", ctx)
         IN  /\ call' = [op |-> "gr_mat_mul_classical", mat1 |-> x, mat2 |-> y,
                         tmp |-> f.tmp]
             /\ status' = f.status
             /\ C' = f.res
    /\ pc' = "returned"
    /\ OpsFrame

NextOps == CallSet \/ CallAdd \/ CallSub \/ CallMul

SpecOps == InitOps /\ [][NextOps]_vars

---------------------------------------------------------------------------
(* Specification SpecCtx: threads calling                                   *)
(* gr_ctx_init_matrix(ctx, base_ring, n), each on context objects of its    *)
(* own.  The statics of lines 1010-1012 are shared and the code takes no    *)
(* lock: the steps of the calls interleave, so the read of the flag at line *)
(* 1057 falls before or after the write of line 1060 of another call.       *)

Threads == 1 .. NumThreads

\* the dimensions n the contexts are constructed with
MatrixSizes == {1, 2}

\* a context object before the call has written it
NoCtx == [flags |-> {}, base_ring |-> 0, n |-> 0, methods2 |-> "NULL"]

CtxIdle ==
    /\ A = NoMat /\ B = NoMat /\ C = NoMat /\ LU = NoMat /\ P = NoArr
    /\ full_rank_check = 0 /\ rank = 0 /\ row = 0 /\ col = 0
    /\ status = NONE /\ pivot_status = NONE /\ pivot_row = NONE
    /\ res_rank = NONE /\ res0 = NONE
    /\ pc = "threads" /\ call = [op |-> "gr_ctx_init_matrix"]

InitCtx ==
    /\ ctx \in {cx \in Rings : cx.undec = {}}
    /\ _matrix_methods2_initialized = 0
    /\ _matrix_methods2 = "empty"
    /\ tab_inits = 0
    /\ thread = [t \in Threads |-> [pc |-> "idle", ctx |-> NoCtx, ncalls |-> 0]]
    /\ CtxIdle

CtxFrame == UNCHANGED <<ctx, pc, call, A, B, C, LU, P, full_rank_check, rank, row, col,
                        status, pivot_status, pivot_row, res_rank, res0>>

\* lines 1045-1055: the fields of a new context object; every base ring of
\* the model is finite
CtxFields(t) ==
    /\ thread[t].pc = "idle"
    /\ thread[t].ncalls < MaxCalls
    /\ \E n \in MatrixSizes :
         thread' = [thread EXCEPT ![t].pc = "test",
                                  ![t].ctx = [flags |-> {"GR_FINITE_RING"},
                                              base_ring |-> ctx.mod,
                                              n |-> n,
                                              methods2 |-> "NULL"]]
    /\ UNCHANGED <<_matrix_methods2_initialized, _matrix_methods2, tab_inits>>
    /\ CtxFrame

\* line 1057: the test of the flag
CtxTest(t) ==
    /\ thread[t].pc = "test"
    /\ thread' = [thread EXCEPT
                     ![t].pc = IF _matrix_methods2_initialized = 0 THEN "init" ELSE "methods"]
    /\ UNCHANGED <<_matrix_methods2_initialized, _matrix_methods2, tab_inits>>
    /\ CtxFrame

\* line 1059: gr_method_tab_init_static writes the table
CtxTabInit(t) ==
    /\ thread[t].pc = "init"
    /\ _matrix_methods2' = "built"
    /\ tab_inits' = tab_inits + 1
    /\ thread' = [thread EXCEPT ![t].pc = "flag"]
    /\ UNCHANGED _matrix_methods2_initialized
    /\ CtxFrame

\* line 1060
CtxSetFlag(t) ==
    /\ thread[t].pc = "flag"
    /\ _matrix_methods2_initialized' = 1
    /\ thread' = [thread EXCEPT ![t].pc = "methods"]
    /\ UNCHANGED <<_matrix_methods2, tab_inits>>
    /\ CtxFrame

\* line 1063: the context points to the table; the call returns
CtxSetMethods(t) ==
    /\ thread[t].pc = "methods"
    /\ thread' = [thread EXCEPT ![t].pc = "idle",
                                ![t].ctx.methods2 = "_matrix_methods2",
                                ![t].ncalls = @ + 1]
    /\ UNCHANGED <<_matrix_methods2_initialized, _matrix_methods2, tab_inits>>
    /\ CtxFrame

NextCtx ==
    \E t \in Threads :
        \/ CtxFields(t)
        \/ CtxTest(t)
        \/ CtxTabInit(t)
        \/ CtxSetFlag(t)
        \/ CtxSetMethods(t)

SpecCtx == InitCtx /\ [][NextCtx]_vars

---------------------------------------------------------------------------
(* Specification SpecSwap: a matrix LU made by gr_mat_init with both        *)
(* dimensions positive, and any sequence of calls                           *)
(* _gr_mat_swap_rows(LU, P, r, s, ctx) with P the identity array at first,  *)
(* or NULL.                                                                 *)

SwapIdle ==
    /\ MatrixCtxIdle
    /\ A = NoMat /\ B = NoMat /\ C = NoMat
    /\ full_rank_check = 0 /\ rank = 0 /\ row = 0 /\ col = 0
    /\ status = NONE /\ pivot_status = NONE /\ pivot_row = NONE
    /\ res_rank = NONE /\ res0 = NONE

InitSwap ==
    /\ ctx \in {cx \in Rings : cx.undec = {}}
    /\ \E nrows \in 1 .. SwapRows, ncols \in 1 .. SwapCols, k \in Elems(ctx) :
         /\ LU = CountingMat(nrows, ncols, k, ctx)
         /\ P \in {IdentityPerm(nrows), NoArr}
    /\ pc = "idle"
    /\ call = NoCall
    /\ SwapIdle

\* one call _gr_mat_swap_rows(LU, P, r, s, ctx)
SwapRowsCall ==
    /\ pc = "idle"
    /\ \E r1 \in 0 .. (gr_mat_nrows(LU) - 1), s1 \in 0 .. (gr_mat_nrows(LU) - 1) :
         LET f == _gr_mat_swap_rows(LU, P, r1, s1)
         IN  /\ LU' = f.mat
             /\ P' = f.perm
             /\ call' = [op |-> "_gr_mat_swap_rows", r |-> r1, s |-> s1]
    /\ UNCHANGED <<ctx, matrix_vars, pc, A, B, C, full_rank_check, rank, row, col,
                   status, pivot_status, pivot_row, res_rank, res0>>

NextSwap == SwapRowsCall

SpecSwap == InitSwap /\ [][NextSwap]_vars

---------------------------------------------------------------------------
(* Specification Spec: one call of                                         *)
(* gr_mat_lu_classical(&res_rank, P, LU, A, full_rank_check, ctx).         *)
(* LU is a matrix of the shape of A as gr_mat_init leaves it.  P is the    *)
(* caller's array of length m: its content at the call is arbitrary, and   *)
(* is fixed here when A is not empty, where lines 799-800 overwrite it     *)
(* before anything reads it.                                               *)

LUIdle == B = NoMat /\ C = NoMat /\ res0 = NONE /\ MatrixCtxIdle

Init ==
    /\ ctx \in Rings
    /\ \E m \in 0 .. MaxRows, n \in 0 .. MaxCols :
          /\ \E e \in Buffers(m, n, ctx) : A = MatOf(m, n, e)
          /\ LU = gr_mat_init(m, n)
          /\ P \in IF m = 0 \/ n = 0
                   THEN [0 .. (m - 1) -> 0 .. (m - 1)]
                   ELSE {[i \in 0 .. (m - 1) |-> 0]}
    /\ full_rank_check \in {0, 1}
    /\ pc = "call"
    /\ call = [op |-> "gr_mat_lu_classical"]
    /\ rank = NONE /\ row = NONE /\ col = NONE
    /\ status = NONE /\ pivot_status = NONE /\ pivot_row = NONE
    /\ res_rank = NONE
    /\ LUIdle

\* lines 782-805: the early return on an empty A, or the set-up of the loop
LUCall ==
    /\ pc = "call"
    /\ IF gr_mat_is_empty(A)
       THEN /\ res_rank' = 0
            /\ status' = GR_SUCCESS
            /\ pc' = "done"
            /\ UNCHANGED <<LU, P, rank, row, col>>
       ELSE /\ LU' = gr_mat_set(LU, A, FALSE).res
            /\ rank' = 0 /\ row' = 0 /\ col' = 0
            /\ P' = IdentityPerm(gr_mat_nrows(A))
            /\ status' = GR_SUCCESS
            /\ pc' = "loop"
            /\ UNCHANGED res_rank
    /\ UNCHANGED <<ctx, matrix_vars, call, A, B, C, full_rank_check, pivot_status, pivot_row, res0>>

\* the loop test of line 807
LUInLoop == pc = "loop" /\ row < gr_mat_nrows(A) /\ col < gr_mat_ncols(A)

\* line 809: pivot_status = ca_mat_find_pivot(&r, LU, row, m, col, ctx)
LUSearch ==
    /\ LUInLoop
    /\ LET f == ca_mat_find_pivot(LU, row, gr_mat_nrows(A), col, ctx)
       IN  /\ pivot_status' = f.status
           /\ pivot_row' = f.pivot_row
    /\ pc' = "pivot"
    /\ UNCHANGED <<ctx, matrix_vars, call, A, B, C, LU, P, full_rank_check, rank, row, col,
                   status, res_rank, res0>>

\* mutant: the break is missing, the search goes on with the next column
LUPivotUnable_continue ==
    /\ pc = "pivot"
    /\ pivot_status = GR_UNABLE
    /\ status' = GR_UNABLE
    /\ col' = col + 1
    /\ pc' = "loop"
    /\ UNCHANGED <<ctx, matrix_vars, call, A, B, C, LU, P, full_rank_check, rank, row,
                   pivot_status, pivot_row, res_rank, res0>>

\* lines 813-817: the pivot search was unable to decide
LUPivotUnable ==
    /\ pc = "pivot"
    /\ pivot_status = GR_UNABLE
    /\ status' = GR_UNABLE
    /\ pc' = "exit"
    /\ UNCHANGED <<ctx, matrix_vars, call, A, B, C, LU, P, full_rank_check, rank, row, col,
                   pivot_status, pivot_row, res_rank, res0>>

\* mutant: rank is not reset
LUPivotDomainCheck_keeps_rank ==
    /\ pc = "pivot"
    /\ pivot_status = GR_DOMAIN
    /\ full_rank_check # 0
    /\ status' = GR_SUCCESS
    /\ pc' = "exit"
    /\ UNCHANGED <<ctx, matrix_vars, call, A, B, C, LU, P, full_rank_check, rank, row, col,
                   pivot_status, pivot_row, res_rank, res0>>

\* lines 820-829: no pivot in the column, full rank check requested
LUPivotDomainCheck ==
    /\ pc = "pivot"
    /\ pivot_status = GR_DOMAIN
    /\ full_rank_check # 0
    /\ status' = GR_SUCCESS
    /\ rank' = 0
    /\ pc' = "exit"
    /\ UNCHANGED <<ctx, matrix_vars, call, A, B, C, LU, P, full_rank_check, row, col,
                   pivot_status, pivot_row, res_rank, res0>>

\* mutant: the continue is taken without col++
LUPivotDomainNext_keeps_col ==
    /\ pc = "pivot"
    /\ pivot_status = GR_DOMAIN
    /\ full_rank_check = 0
    /\ pc' = "loop"
    /\ UNCHANGED <<ctx, matrix_vars, call, A, B, C, LU, P, full_rank_check, rank, row, col,
                   status, pivot_status, pivot_row, res_rank, res0>>

\* mutant: the zero column consumes a row as well
LUPivotDomainNext_advances_row ==
    /\ pc = "pivot"
    /\ pivot_status = GR_DOMAIN
    /\ full_rank_check = 0
    /\ col' = col + 1
    /\ row' = row + 1
    /\ pc' = "loop"
    /\ UNCHANGED <<ctx, matrix_vars, call, A, B, C, LU, P, full_rank_check, rank,
                   status, pivot_status, pivot_row, res_rank, res0>>

\* lines 820-834: no pivot in the column, continue with the next column
LUPivotDomainNext ==
    /\ pc = "pivot"
    /\ pivot_status = GR_DOMAIN
    /\ full_rank_check = 0
    /\ col' = col + 1
    /\ pc' = "loop"
    /\ UNCHANGED <<ctx, matrix_vars, call, A, B, C, LU, P, full_rank_check, rank, row,
                   status, pivot_status, pivot_row, res_rank, res0>>

\* a pivot row was returned: neither of the tests of lines 813 and 820 holds
LUPivotFound == pc = "pivot" /\ pivot_status # GR_UNABLE /\ pivot_status # GR_DOMAIN

\* lines 838-842: [mat, perm, inv], the row swap and the result of gr_inv on
\* the pivot entry
LUSwapInv ==
    LET sw == IF pivot_row # row
              THEN _gr_mat_swap_rows(LU, P, row, pivot_row)
              ELSE [mat |-> LU, perm |-> P]
    IN  [mat |-> sw.mat, perm |-> sw.perm,
         inv |-> gr_inv(0, sw.mat.entries[sw.mat.rows[row] + col], ctx)]

\* mutant: the test of line 843 is missing, the rows below are eliminated with
\* whatever d holds and the loop goes on
LUPivot_ignores_inv ==
    /\ LUPivotFound
    /\ LET si == LUSwapInv
           st == StatusOr(status, si.inv.status)
           el == lu_eliminate(si.mat, row + 1, row, col, rank + 1, si.inv.val, st, ctx)
       IN  /\ rank' = rank + 1
           /\ P' = si.perm
           /\ LU' = el.mat
           /\ status' = el.status
           /\ row' = row + 1
           /\ col' = col + 1
           /\ pc' = "loop"
    /\ UNCHANGED <<ctx, matrix_vars, call, A, B, C, full_rank_check, pivot_status, pivot_row,
                   res_rank, res0>>

\* lines 836-857 of an iteration whose pivot search succeeded: the pivot is
\* inverted and the rows below are eliminated, or the inversion fails and the
\* loop is left
LUPivot ==
    /\ LUPivotFound
    /\ LET si == LUSwapInv
           st == StatusOr(status, si.inv.status)
       IN  /\ rank' = rank + 1
           /\ P' = si.perm
           /\ IF st # GR_SUCCESS
              THEN /\ LU' = si.mat
                   /\ status' = st
                   /\ pc' = "exit"
                   /\ UNCHANGED <<row, col>>
              ELSE LET el == lu_eliminate(si.mat, row + 1, row, col, rank + 1,
                                          si.inv.val, st, ctx)
                   IN  /\ LU' = el.mat
                       /\ status' = el.status
                       /\ row' = row + 1
                       /\ col' = col + 1
                       /\ pc' = "loop"
    /\ UNCHANGED <<ctx, matrix_vars, call, A, B, C, full_rank_check, pivot_status, pivot_row,
                   res_rank, res0>>

\* lines 859-863: after a break or a false loop test
LUReturn ==
    /\ pc = "exit" \/ (pc = "loop" /\ ~LUInLoop)
    /\ res_rank' = rank
    /\ pc' = "done"
    /\ UNCHANGED <<ctx, matrix_vars, call, A, B, C, LU, P, full_rank_check, rank, row, col,
                   status, pivot_status, pivot_row, res0>>

Next ==
    \/ LUCall
    \/ LUSearch
    \/ LUPivotUnable
    \/ LUPivotDomainCheck
    \/ LUPivotDomainNext
    \/ LUPivot
    \/ LUReturn

Spec == Init /\ [][Next]_vars

\* the arguments of the call as in Init, for the shapes up to LiveRows x LiveCols
InitLive ==
    /\ ctx \in Rings
    /\ \E m \in 0 .. LiveRows, n \in 0 .. LiveCols :
          /\ \E e \in Buffers(m, n, ctx) : A = MatOf(m, n, e)
          /\ LU = gr_mat_init(m, n)
          /\ P \in IF m = 0 \/ n = 0
                   THEN [0 .. (m - 1) -> 0 .. (m - 1)]
                   ELSE {[i \in 0 .. (m - 1) |-> 0]}
    /\ full_rank_check \in {0, 1}
    /\ pc = "call"
    /\ call = [op |-> "gr_mat_lu_classical"]
    /\ rank = NONE /\ row = NONE /\ col = NONE
    /\ status = NONE /\ pivot_status = NONE /\ pivot_row = NONE
    /\ res_rank = NONE
    /\ LUIdle

\* the call runs on its thread until it returns: a step that can be taken is
\* taken
SpecLive == InitLive /\ [][Next]_vars /\ WF_vars(Next)

---------------------------------------------------------------------------
(* Properties of the pivot search (SpecPivot).                             *)

\* the rows of the range searched by the call
PivotRange == call.start_row .. (call.end_row - 1)

\* the zero test of row i in the searched column
PivotTest(i) == gr_is_zero(GR_MAT_ENTRY(LU, i, call.column), ctx)
ProvenNonzero(i) == PivotTest(i).status = GR_SUCCESS /\ ~PivotTest(i).res
ProvenZero(i) == PivotTest(i).status = GR_SUCCESS /\ PivotTest(i).res
Undecided(i) == PivotTest(i).status # GR_SUCCESS

\* C1: over a non-empty range holding a row proven nonzero the search returns
\* Success and the index of a row of the range that is itself proven nonzero;
\* a Success return never names a row that is proven zero or undecided.
C1_PivotIsProvenNonzero ==
    pc = "returned" =>
        /\ (\E i \in PivotRange : ProvenNonzero(i)) => pivot_status = GR_SUCCESS
        /\ pivot_status = GR_SUCCESS =>
              /\ pivot_row \in PivotRange
              /\ ProvenNonzero(pivot_row)

\* an undecided row, then a zero row, then the nonzero row that is returned
C1_Witness ==
    /\ pc = "returned"
    /\ call.start_row = 0 /\ call.end_row = 3
    /\ Undecided(0) /\ ProvenZero(1) /\ ProvenNonzero(2)
    /\ pivot_status = GR_SUCCESS
    /\ pivot_row = 2

\* C2: over a non-empty range without a row proven nonzero the search writes
\* -1 and returns Domain when every row is proven zero, Unable when some row
\* is undecided.
C2_NoPivotStatus ==
    (pc = "returned" /\ ~(\E i \in PivotRange : ProvenNonzero(i))) =>
        /\ pivot_row = -1
        /\ (\A i \in PivotRange : ProvenZero(i)) => pivot_status = GR_DOMAIN
        /\ (\E i \in PivotRange : Undecided(i)) => pivot_status = GR_UNABLE

\* an undecided row followed by a zero row: Unable, not Domain
C2_Witness ==
    /\ pc = "returned"
    /\ call.start_row = 0 /\ call.end_row >= 2
    /\ Undecided(0) /\ ProvenZero(1)
    /\ \A i \in PivotRange : ~ProvenNonzero(i)
    /\ pivot_status = GR_UNABLE
    /\ pivot_row = -1

---------------------------------------------------------------------------
(* Properties of the LU decomposition (Spec).                              *)

\* a field with decidable zero testing: Z/p, p prime, every test decided
IsPrime(q) == q >= 2 /\ \A k \in 2 .. (q - 1) : q % k # 0
DecidableField(cx) == IsPrime(cx.mod) /\ cx.undec = {}

\* sum over rows 0..i-1 of coef[i] * A[i][j]
RECURSIVE ComboSum(_, _, _, _)
ComboSum(mat, coef, j, i) ==
    IF i = 0 THEN 0
    ELSE ComboSum(mat, coef, j, i - 1) + coef[i - 1] * GR_MAT_ENTRY(mat, i - 1, j)

\* the row space of mat over Z/q: every linear combination of its rows
RowSpace(mat, q) ==
    {[j \in 0 .. (mat.c - 1) |-> ComboSum(mat, coef, j, mat.r) % q] :
        coef \in [0 .. (mat.r - 1) -> 0 .. (q - 1)]}

RECURSIVE Pow(_, _)
Pow(q, k) == IF k = 0 THEN 1 ELSE q * Pow(q, k - 1)

\* the number of linearly independent rows: the dimension of the row space
LinearRank(mat, q) ==
    CHOOSE k \in 0 .. mat.r : Pow(q, k) = Cardinality(RowSpace(mat, q))

\* column col is proven zero in every remaining row
ZeroColumnBelow ==
    \A i \in row .. (gr_mat_nrows(A) - 1) :
        LET z == gr_is_zero(GR_MAT_ENTRY(LU, i, col), ctx)
        IN  z.status = GR_SUCCESS /\ z.res

C3_RankOnReturn ==
    (pc = "done" /\ full_rank_check = 0 /\ DecidableField(ctx)) =>
        (status = GR_SUCCESS /\ res_rank = LinearRank(A, ctx.mod))

C3_ZeroColumnStep ==
    (pc = "pivot" /\ full_rank_check = 0 /\ DecidableField(ctx) /\ ZeroColumnBelow) =>
        (col' = col + 1 /\ row' = row /\ rank' = rank /\ pc' = "loop"
         /\ LU' = LU /\ P' = P)

\* C3: over a field with decidable zero testing and full_rank_check = 0 the
\* call returns Success and the number of linearly independent rows of A, and
\* an iteration whose column is zero in the remaining rows advances the column
\* cursor only.
C3_RankIsLinearRank == [](C3_RankOnReturn) /\ [][C3_ZeroColumnStep]_vars

\* a 2 x 2 matrix whose first column is zero and whose rank is 1
C3_Witness ==
    /\ pc = "done" /\ full_rank_check = 0 /\ DecidableField(ctx)
    /\ A.r = 2 /\ A.c = 2
    /\ GR_MAT_ENTRY(A, 0, 0) = 0 /\ GR_MAT_ENTRY(A, 1, 0) = 0
    /\ pivot_status = GR_SUCCESS
    /\ status = GR_SUCCESS /\ res_rank = 1

\* p is a permutation of 0..m-1
IsPermutation(p, m) ==
    /\ DOMAIN p = 0 .. (m - 1)
    /\ \A k \in 0 .. (m - 1) : \E i \in 0 .. (m - 1) : p[i] = k

\* row i of LU is the storage that was loaded with row P[i] of A
RowsFollowP ==
    \A i \in 0 .. (gr_mat_nrows(A) - 1) :
        gr_mat_ncols(A) # 0 => LU.rows[i] = A.rows[P[i]]

\* C4: on every return P is a permutation of 0..m-1 and row i of LU is the
\* image of row P[i] of A.
C4_PermutationOnReturn ==
    pc = "done" => (IsPermutation(P, gr_mat_nrows(A)) /\ RowsFollowP)

\* the same, for an A that is not empty
C4_PermutationOnReturnNonEmpty ==
    (pc = "done" /\ ~gr_mat_is_empty(A)) =>
        (IsPermutation(P, gr_mat_nrows(A)) /\ RowsFollowP)

C5_UnableStep ==
    (pc = "pivot" /\ pivot_status = GR_UNABLE) =>
        (pc' = "exit" /\ status' = GR_UNABLE
         /\ LU' = LU /\ P' = P /\ rank' = rank /\ row' = row /\ col' = col)

C5_ExitStep ==
    pc = "exit" => (pc' = "done" /\ status' = status /\ LU' = LU /\ P' = P)

C5_UnableReturned ==
    (pc = "done" /\ pivot_status = GR_UNABLE) => status = GR_UNABLE

\* C5: an iteration whose pivot search returns Unable leaves the loop without
\* a swap, an inversion or an elimination, nothing but the return follows,
\* and the call returns Unable.
C5_UnableStopsAtOnce ==
    [][C5_UnableStep]_vars /\ [][C5_ExitStep]_vars /\ [](C5_UnableReturned)

\* Unable in full-rank-check mode after a pivot had been found
C5_Witness ==
    /\ pc = "done"
    /\ full_rank_check # 0
    /\ pivot_status = GR_UNABLE
    /\ rank >= 1
    /\ status = GR_UNABLE

\* C6: in full-rank-check mode a pivot search that returns Domain ends the
\* call with Success and rank 0, and a Success return reports rank 0 or
\* min(m, n).
C6_RankCheckDomain ==
    (pc = "done" /\ full_rank_check # 0) =>
        /\ pivot_status = GR_DOMAIN => (status = GR_SUCCESS /\ res_rank = 0)
        /\ status = GR_SUCCESS =>
              res_rank \in {0, FLINT_MIN(gr_mat_nrows(A), gr_mat_ncols(A))}

\* Domain in the second column, after a pivot was found in the first
C6_Witness ==
    /\ pc = "done"
    /\ full_rank_check # 0
    /\ pivot_status = GR_DOMAIN
    /\ row = 1 /\ col = 1
    /\ status = GR_SUCCESS
    /\ res_rank = 0

---------------------------------------------------------------------------
(* Claims about the shape checks and the matrix predicates.                *)

\* the shapes of the call's operands disagree, read before the call returns
OpsMismatch(cl) ==
    LET x == Operand(cl.mat1)
        y == Operand(cl.mat2)
    IN  IF cl.op = "gr_mat_mul_classical"
        THEN \/ gr_mat_ncols(x) # gr_mat_nrows(y)
             \/ gr_mat_nrows(x) # gr_mat_nrows(C)
             \/ gr_mat_ncols(y) # gr_mat_ncols(C)
        ELSE \/ gr_mat_nrows(x) # gr_mat_nrows(C) \/ gr_mat_ncols(x) # gr_mat_ncols(C)
             \/ gr_mat_nrows(y) # gr_mat_nrows(C) \/ gr_mat_ncols(y) # gr_mat_ncols(C)

C7_MismatchStep ==
    (pc = "idle" /\ pc' = "returned" /\ OpsMismatch(call'))
        => status' = GR_DOMAIN /\ C' = C

\* C7: gr_mat_set, gr_mat_add, gr_mat_sub and gr_mat_mul_classical called with
\* operands whose shapes disagree return GR_DOMAIN and leave the result matrix
\* (shape, row table, every entry) as it was.
C7_MismatchLeavesResult == [][C7_MismatchStep]_vars

\* a multiplication of two matrices that fit each other into a non-empty C of
\* another shape has returned GR_DOMAIN
C7_Witness ==
    /\ pc = "returned"
    /\ call.op = "gr_mat_mul_classical" /\ call.mat1 = "A" /\ call.mat2 = "B"
    /\ gr_mat_ncols(A) = gr_mat_nrows(B) /\ gr_mat_nrows(B) > 0
    /\ gr_mat_nrows(C) > 0 /\ gr_mat_ncols(C) > 0
    /\ gr_mat_nrows(C) # gr_mat_nrows(A)
    /\ status = GR_DOMAIN

EqualShapesDiffer ==
    gr_mat_nrows(A) # gr_mat_nrows(B) \/ gr_mat_ncols(A) # gr_mat_ncols(B)

\* C8 as stated: gr_mat_equal on matrices whose row counts or column counts
\* differ yields GR_DOMAIN.
C8_EqualMismatchIsDomain ==
    (pc = "returned" /\ call.op = "gr_mat_equal" /\ EqualShapesDiffer)
        => status = GR_DOMAIN

\* C8 amended: gr_mat_equal on matrices whose row counts or column counts
\* differ yields GR_SUCCESS and writes the boolean false.
C8_EqualMismatchIsFalse ==
    (pc = "returned" /\ call.op = "gr_mat_equal" /\ EqualShapesDiffer)
        => status = GR_SUCCESS /\ res0 = 0

C8_Witness ==
    /\ pc = "returned" /\ call.op = "gr_mat_equal"
    /\ gr_mat_nrows(A) = gr_mat_nrows(B) /\ gr_mat_nrows(A) > 0
    /\ gr_mat_ncols(A) # gr_mat_ncols(B) /\ gr_mat_ncols(A) > 0 /\ gr_mat_ncols(B) > 0
    /\ res0 = 0

\* the row tests (gr_mat_is_zero, gr_mat_equal) or element tests (gr_mat_is_one,
\* gr_mat_is_neg_one) the loops of the returned call run over: [status, res]
PredTests ==
    IF call.op = "gr_mat_equal"
    THEN IF EqualShapesDiffer \/ gr_mat_is_empty(A)
         THEN {}
         ELSE {_gr_vec_equal(A.entries, A.rows[i], B.entries, B.rows[i],
                             gr_mat_ncols(A), ctx) : i \in 0 .. (gr_mat_nrows(A) - 1)}
    ELSE IF gr_mat_is_empty(A)
    THEN {}
    ELSE IF call.op = "gr_mat_is_zero"
    THEN {_gr_vec_is_zero(A.entries, A.rows[i], gr_mat_ncols(A), ctx) :
             i \in 0 .. (gr_mat_nrows(A) - 1)}
    ELSE {mat_diag_test(A, i, j, IF call.op = "gr_mat_is_one" THEN "one" ELSE "neg_one", ctx) :
             i \in 0 .. (gr_mat_nrows(A) - 1), j \in 0 .. (gr_mat_ncols(A) - 1)}

DefiniteFalse(t) == t.status = GR_SUCCESS /\ ~t.res

\* C9 as stated: when some row or element test is not Success and none is a
\* definite false, the predicate's status is not Success; Success with true
\* is returned only when every test returned Success with true.
C9_StatusNotSwallowed ==
    pc = "returned" =>
        /\ ((\E t \in PredTests : t.status # GR_SUCCESS)
                /\ ~(\E t \in PredTests : DefiniteFalse(t)))
              => status # GR_SUCCESS
        /\ (status = GR_SUCCESS /\ res0 = 1)
              => \A t \in PredTests : t.status = GR_SUCCESS /\ t.res

\* C10: when any row or element test of a matrix predicate is a definite
\* false, the predicate returns GR_SUCCESS with false, whatever the number of
\* tests that returned GR_UNABLE.
C10_DefiniteFalseWins ==
    (pc = "returned" /\ \E t \in PredTests : DefiniteFalse(t))
        => status = GR_SUCCESS /\ res0 = 0

\* gr_mat_is_zero has returned on a matrix whose first row is undecided and
\* whose last row is proven nonzero
C10_Witness ==
    /\ pc = "returned" /\ call.op = "gr_mat_is_zero"
    /\ gr_mat_nrows(A) >= 2 /\ gr_mat_ncols(A) >= 1
    /\ _gr_vec_is_zero(A.entries, A.rows[0], gr_mat_ncols(A), ctx).status = GR_UNABLE
    /\ DefiniteFalse(_gr_vec_is_zero(A.entries, A.rows[gr_mat_nrows(A) - 1],
                                     gr_mat_ncols(A), ctx))
    /\ res0 = 0

---------------------------------------------------------------------------
(* Claims about the matrix product (SpecOps).                               *)

\* the step is a call of gr_mat_mul_classical whose shapes fit
MulFits == pc = "idle" /\ pc' = "returned" /\ call'.op = "gr_mat_mul_classical"
           /\ ~OpsMismatch(call')

\* mat1 and mat2 hold the same value at every cell of their common shape
SameCells(mat1, mat2) ==
    /\ gr_mat_nrows(mat1) = gr_mat_nrows(mat2)
    /\ gr_mat_ncols(mat1) = gr_mat_ncols(mat2)
    /\ \A i \in 0 .. (gr_mat_nrows(mat1) - 1), j \in 0 .. (gr_mat_ncols(mat1) - 1) :
          GR_MAT_ENTRY(mat1, i, j) = GR_MAT_ENTRY(mat2, i, j)

C11_AliasStep ==
    (MulFits /\ (call'.mat1 = "C" \/ call'.mat2 = "C")) =>
        LET x == Operand(call'.mat1)
            y == Operand(call'.mat2)
            \* the call with a disjoint, freshly initialised result matrix
            ref == gr_mat_mul_classical(gr_mat_init(gr_mat_nrows(x), gr_mat_ncols(y)),
                                        x, y, FALSE, ctx)
        IN  /\ status' = ref.status
            /\ SameCells(C', ref.res)
            /\ C'.rows = C.rows
            /\ call'.tmp.freed = call'.tmp.alloc

\* C11: gr_mat_mul_classical with C the object A or B leaves in C's storage the
\* product a call with a disjoint result computes from the original operands,
\* with the same status, and every buffer of the temporary is freed.
C11_AliasedProduct == [][C11_AliasStep]_vars

\* C = C * B has returned for a 2 x 2 C: the dot-product path ran through a
\* temporary that owned both buffers
C11_Witness ==
    /\ pc = "returned" /\ call.op = "gr_mat_mul_classical"
    /\ call.mat1 = "C" /\ call.mat2 = "B"
    /\ gr_mat_nrows(C) = 2 /\ gr_mat_ncols(C) = 2
    /\ gr_mat_nrows(B) = 2 /\ gr_mat_ncols(B) = 2
    /\ \E i \in 0 .. 1, j \in 0 .. 1 : GR_MAT_ENTRY(B, i, j) # (IF i = j THEN 1 ELSE 0)
    /\ status = GR_SUCCESS
    /\ call.tmp.alloc = {"rows", "entries"}

\* the sum over k < n of mat1[i][k] * mat2[k][j] in Z/q
RECURSIVE SumOfProducts(_, _, _, _, _, _)
SumOfProducts(mat1, mat2, i, j, n, q) ==
    IF n = 0 THEN 0
    ELSE (SumOfProducts(mat1, mat2, i, j, n - 1, q)
            + GR_MAT_ENTRY(mat1, i, n - 1) * GR_MAT_ENTRY(mat2, n - 1, j)) % q

C12_ProductStep ==
    (MulFits /\ call'.mat1 # "C" /\ call'.mat2 # "C") =>
        LET x == Operand(call'.mat1)
            y == Operand(call'.mat2)
        IN  /\ gr_mat_nrows(C') = gr_mat_nrows(x) /\ gr_mat_ncols(C') = gr_mat_ncols(y)
            /\ \A i \in 0 .. (gr_mat_nrows(x) - 1), j \in 0 .. (gr_mat_ncols(y) - 1) :
                  GR_MAT_ENTRY(C', i, j)
                      = SumOfProducts(x, y, i, j, gr_mat_ncols(x), ctx.mod)

\* C12: with C distinct from A and B and fitting shapes, gr_mat_mul_classical
\* sets every C[i][j] to the sum over k of A[i][k] * B[k][j] in the base ring
\* (zero for a shared dimension of 0, one product for 1, a dot product else).
C12_ProductValue == [][C12_ProductStep]_vars

\* C = A * B has returned with a shared dimension of 2 and a B that differs
\* from its transpose
C12_Witness ==
    /\ pc = "returned" /\ call.op = "gr_mat_mul_classical"
    /\ call.mat1 = "A" /\ call.mat2 = "B"
    /\ gr_mat_nrows(A) = gr_mat_nrows(C) /\ gr_mat_nrows(C) > 0
    /\ gr_mat_ncols(A) = 2 /\ gr_mat_nrows(B) = 2
    /\ gr_mat_ncols(B) = gr_mat_ncols(C) /\ gr_mat_ncols(C) = 2
    /\ GR_MAT_ENTRY(B, 0, 1) # GR_MAT_ENTRY(B, 1, 0)
    /\ status = GR_SUCCESS

---------------------------------------------------------------------------
(* Claim about gr_mat_one (SpecPred).                                       *)

\* C13: over a ring with decidable tests, gr_mat_one on a square matrix
\* (0 x 0 included) writes one on the diagonal and zero elsewhere, and
\* gr_mat_is_one called next on it reports (GR_SUCCESS, true).
C13_OneIsOne ==
    (/\ pc = "returned" /\ call.op = "gr_mat_is_one" /\ call.after = "gr_mat_one"
     /\ gr_mat_nrows(A) = gr_mat_ncols(A)
     /\ ctx.undec = {})
        => /\ status = GR_SUCCESS /\ res0 = 1
           /\ \A i \in 0 .. (gr_mat_nrows(A) - 1), j \in 0 .. (gr_mat_ncols(A) - 1) :
                 GR_MAT_ENTRY(A, i, j) = (IF i = j THEN 1 % ctx.mod ELSE 0)

\* gr_mat_is_one has returned after gr_mat_one on a matrix with two diagonal cells
C13_Witness ==
    /\ pc = "returned" /\ call.op = "gr_mat_is_one" /\ call.after = "gr_mat_one"
    /\ gr_mat_nrows(A) = gr_mat_ncols(A) /\ gr_mat_nrows(A) >= 2
    /\ ctx.undec = {}
    /\ res0 = 1

---------------------------------------------------------------------------
(* Claim about the shared method table (SpecCtx).                           *)

\* some call has returned a context that points to the table
TableInUse == \E t \in DOMAIN thread : thread[t].ncalls > 0

\* C14 as stated: the table initialisation runs once only, no call writes the
\* table after another call has started using it, and every constructed
\* context points to the one table.
C14_TableBuiltOnce ==
    /\ [](tab_inits <= 1)
    /\ [][tab_inits' # tab_inits => ~TableInUse]_vars
    /\ [](\A t \in DOMAIN thread :
             thread[t].ncalls > 0 /\ thread[t].pc = "idle"
                 => thread[t].ctx.methods2 = "_matrix_methods2")

---------------------------------------------------------------------------
(* Further claims about gr_mat_lu_classical (Spec).                         *)

\* the entry the pivot search selected has no inverse in the ring
PivotNotInvertible ==
    /\ pc = "pivot" /\ pivot_status = GR_SUCCESS
    /\ ~\E y \in Elems(ctx) : (GR_MAT_ENTRY(LU, pivot_row, col) * y) % ctx.mod = 1 % ctx.mod

C15_InvFailStep ==
    PivotNotInvertible =>
        /\ pc' = "exit"
        /\ status' # GR_SUCCESS
        /\ LU'.entries = LU.entries
        /\ row' = row /\ col' = col

C15_FailedExitStep ==
    (pc = "exit" /\ status # GR_SUCCESS) =>
        (pc' = "done" /\ status' = status /\ LU' = LU /\ P' = P)

\* C15: when gr_inv fails on the pivot entry of a successful pivot search, no
\* row is eliminated for that pivot, the loop is left, nothing but the return
\* follows, and the call does not return Success.
C15_InversionFailureIsFatal ==
    [][C15_InvFailStep]_vars /\ [][C15_FailedExitStep]_vars

\* the call has returned Domain from the inversion of a second pivot, over a
\* ring with a nonzero element that is not a unit
C15_Witness ==
    /\ pc = "done"
    /\ pivot_status = GR_SUCCESS
    /\ status = GR_DOMAIN
    /\ res_rank = 2 /\ row = 1 /\ col = 1

---------------------------------------------------------------------------
(* Claim about the row table (SpecSwap).                                    *)

\* the row starts gr_mat_init laid out in the entries buffer
RowStarts(mat) == {i * gr_mat_ncols(mat) : i \in 0 .. (gr_mat_nrows(mat) - 1)}

C16_RowTable ==
    LET m == gr_mat_nrows(LU)
        n == gr_mat_ncols(LU)
    IN  /\ DOMAIN LU.rows = 0 .. (m - 1)
        /\ {LU.rows[i] : i \in 0 .. (m - 1)} = RowStarts(LU)
        /\ \A i \in 0 .. (m - 1), j \in 0 .. (m - 1) : LU.rows[i] = LU.rows[j] => i = j
        /\ \A i \in 0 .. (m - 1) : 0 <= LU.rows[i] /\ LU.rows[i] + n <= m * n
        /\ P # NoArr => \A i \in 0 .. (m - 1) : LU.rows[i] = P[i] * n

C16_SwapStep ==
    LET m == gr_mat_nrows(LU)
    IN  /\ LU'.entries = LU.entries
        /\ LU'.r = LU.r /\ LU'.c = LU.c
        /\ \A i \in (0 .. (m - 1)) \ {call'.r, call'.s} : LU'.rows[i] = LU.rows[i]
        /\ P # NoArr => \A i \in (0 .. (m - 1)) \ {call'.r, call'.s} : P'[i] = P[i]
        /\ P = NoArr => P' = NoArr
        /\ call'.r = call'.s => (LU' = LU /\ P' = P)
        /\ call'.r # call'.s =>
              /\ LU'.rows[call'.r] = LU.rows[call'.s]
              /\ LU'.rows[call'.s] = LU.rows[call'.r]

\* C16: after gr_mat_init with positive dimensions and any sequence of
\* _gr_mat_swap_rows calls, the row table is a permutation of the row starts
\* of the entries buffer, each row inside the buffer; no element moves; a call
\* changes at most the two named row pointers and perm entries, none when the
\* indices are equal; with a perm, row i addresses the original row perm[i].
C16_RowTableIsPermutation == [](C16_RowTable) /\ [][C16_SwapStep]_vars

\* three rows moved in a cycle: no row is at its original place
C16_Witness ==
    /\ call.op = "_gr_mat_swap_rows"
    /\ gr_mat_nrows(LU) = 3
    /\ P # NoArr
    /\ \A i \in 0 .. 2 : P[i] # i

\* an iteration leaves the loop or advances the column cursor by one
C17_IterationStep ==
    pc = "pivot" => (pc' = "exit" \/ (pc' = "loop" /\ col' = col + 1))

\* at the start of an iteration (the loop test of line 807 has passed)
C17_AtIterationStart ==
    (LUInLoop \/ pc = "pivot") =>
        /\ rank = row /\ row <= col
        /\ row < gr_mat_nrows(A) /\ col < gr_mat_ncols(A)

C17_RankBound ==
    pc = "done" => res_rank <= FLINT_MIN(gr_mat_nrows(A), gr_mat_ncols(A))

LowerOf(mat, i, k) ==
    IF k < i THEN GR_MAT_ENTRY(mat, i, k) ELSE IF k = i THEN 1 ELSE 0

\* U: the upper triangle of LU with the diagonal
UpperOf(mat, k, j) == IF k <= j THEN GR_MAT_ENTRY(mat, k, j) ELSE 0

\* the sum over k < n of L[i][k] * U[k][j] in Z/q
RECURSIVE LTimesU(_, _, _, _, _)
LTimesU(mat, i, j, n, q) ==
    IF n = 0 THEN 0
    ELSE (LTimesU(mat, i, j, n - 1, q) + LowerOf(mat, i, n - 1) * UpperOf(mat, n - 1, j)) % q

\* the call returned Success with full rank on a square matrix over a field
\* with decidable tests, full_rank_check = 0
FullRankReturn ==
    /\ pc = "done" /\ status = GR_SUCCESS
    /\ full_rank_check = 0
    /\ DecidableField(ctx)
    /\ gr_mat_nrows(A) = gr_mat_ncols(A)
    /\ res_rank = gr_mat_nrows(A)

====
